---- MODULE Spec2Model ----
(***************************************************************************)
(* The capture / detect / display pipeline of SpotAI.                      *)
(*                                                                         *)
(* Two Streamlit front ends share the pipeline: app_improved.py            *)
(* (camera_stream + main) and app_fixed.py (camera_worker + top-level      *)
(* script).  launcher.py lets the operator pick one; `app` records it.     *)
(*                                                                         *)
(* Execution model.  A Streamlit script is executed from the top by one    *)
(* script thread each time the user interacts with a widget; the values    *)
(* in st.session_state survive from one execution to the next.  A widget   *)
(* interaction that arrives while the script is executing is kept as a     *)
(* pending rerun request, and the next st.* element call of the running    *)
(* script raises a script-control exception (a BaseException, so `except   *)
(* Exception` does not catch it while `finally` blocks do run); the script *)
(* is then executed again for the pending interaction.  Each execution     *)
(* that reaches the "main camera loop" allocates a fresh queue.Queue and   *)
(* threading.Event and starts a daemon thread on them: a run.  Runs are    *)
(* numbered 1, 2, ... in the order they are started.                       *)
(***************************************************************************)
EXTENDS Integers, Sequences, FiniteSets

\* ---------------------------------------------------------------- bounds
\* Runs (worker threads) started in one behaviour of Spec.
MaxRuns == 2
\* Frames the camera delivers in one behaviour of Spec.
MaxFrames == 1
\* Frames the camera delivers in one behaviour of SpecChannel.
MaxChannelFrames == 8
\* Frames the browser sends in one behaviour of SpecWebrtc.
MaxResultFrames == 6
\* Threads that call get_detector in one behaviour of SpecLoader, and the
\* calls each of them makes.
MaxLoaders == 2
MaxCalls == 2

\* ------------------------------------------------------------- constants
\* queue.Queue(maxsize=5)
Capacity == 5
\* detection_result_queue = queue.Queue(): maxsize defaults to 0
ResultMaxsize == 0

Runs == 1..MaxRuns
\* The threads inside detector_improved at the same time.
Loaders == 1..MaxLoaders
Apps == {"improved", "fixed"}
\* The address field: empty, an address that opens, one that does not.
Urls == {"", "good", "bad"}
\* Widget interactions: the two buttons, and an edit of the address field
\* (or of another widget, when the address stays as it is).
Events == {"start", "stop", "edit"}
NoEvent == "none"
\* What an st.* call finds: no rerun request, or an interaction.
Requests == {NoEvent} \cup Events

VARIABLES
    app,            \* which front end the launcher started
    camera_active,  \* st.session_state.camera_active / camera_running
    stop_camera,    \* st.session_state.stop_camera (app_improved only)
    ip_url,         \* value of the address text input
    pending,        \* the interaction that interrupted the script, until handled
    status,         \* last status message shown to the user
    mainpc,         \* position of the script thread
    nruns,          \* number of runs started so far; the current run is nruns
    url,            \* url[r]: address given to run r's worker, until it is opened
    nframes,        \* frames the camera has delivered so far
    frame_queue,    \* frame_queue[r]: contents of run r's queue.Queue
    stop_event,     \* stop_event[r]: run r's threading.Event
    wpc,            \* wpc[r]: position of run r's worker thread
    frame,          \* frame[r]: number of the frame run r's worker holds
    dropped,        \* dropped[r]: packets run r's worker discarded (history)
    delivered,      \* delivered[r]: packets the display loop got (history)
    \* The worker and the detector in detail (SpecStream, SpecSummary):
    confidence_threshold, \* value of the "Confidence Threshold" slider
    conf,           \* confidence the detector was last called with, 0: never
    detector,       \* the global _detector: "none" or "loaded"
    cap,            \* the worker's cv2.VideoCapture object
    releases,       \* number of cap.release() calls so far (history)
    fails,          \* consecutive failed reads so far (history)
    annotated_frame,\* the worker's local of that name
    detections,     \* the worker's local of that name / the summary's input
    summary,        \* the worker's local of that name / the summary's output
    after_stop,     \* reads and pushes made while the stop signal was set
    fault,          \* the internal error the last detector call met (history)
    raised,         \* whether the last detector call raised to its caller
    \* The WebRTC page (SpecWebrtc):
    detection_result_queue, \* app_webrtc's module-level queue.Queue()
    received,       \* frames recv has been called with so far
    show_boxes,     \* video_processor.show_boxes
    pagepc,         \* position of app_webrtc's script thread
    \* Concurrent calls of get_detector (SpecLoader):
    global_detector,\* detector_improved._detector: 0 is None, n the nth instance
    constructed,    \* ObjectDetector instances constructed so far (history)
    gpc,            \* gpc[t]: position of thread t inside get_detector
    built,          \* built[t]: the instance t has constructed and not stored
    got,            \* got[t]: the instance t's last call returned, 0: none yet
    calls           \* calls[t]: calls of get_detector t has begun

pipeline == <<app, camera_active, stop_camera, ip_url, pending, status,
              mainpc, nruns, url, nframes, frame_queue, stop_event, wpc,
              frame, dropped, delivered>>

locals == <<confidence_threshold, conf, detector, cap, releases, fails,
            annotated_frame, detections, summary, after_stop, fault, raised>>
webrtc == <<detection_result_queue, received, show_boxes, pagepc>>
loading == <<global_detector, constructed, gpc, built, got, calls>>

detail == <<locals, webrtc, loading>>

vars == <<app, camera_active, stop_camera, ip_url, pending, status,
          mainpc, nruns, url, nframes, frame_queue, stop_event, wpc, frame,
          dropped, delivered, detail>>

session == <<camera_active, stop_camera>>
ui      == <<ip_url, pending, status>>
workers == <<url, nframes, wpc, frame, dropped>>

\* ------------------------------------------------------------ queue.Queue
\* frame_queue.full(): with maxsize 5, true iff 5 items are queued.
QFullNever(q) == FALSE
QFullOffByOne(q) == Len(q) > Capacity
QFull(q) == Len(q) >= Capacity

\* frame_queue.put(item): the item joins the tail.
QPutFront(q, p) == <<p>> \o q
QPut(q, p) == Append(q, p)

\* frame_queue.get(): the head is returned and removed.
QGetItem(q) == Head(q)
QGetRestPeek(q) == q
QGetRest(q) == Tail(q)

\* The packet worker w builds from frame n.
Packet(w, n) == [worker |-> w, frame |-> n]

\* cv2.VideoCapture(address).isOpened()
Opens(u) == u = "good"

\* ------------------------------------------------------------------ Init
\* st.slider("Confidence Threshold", 0.1, 1.0, value=0.5), in hundredths
DefaultConfidence == 50

\* The summary of an empty detection list.
NoSummary == [total_objects |-> 0, classes |-> << >>]

\* app_webrtc before the first frame: an empty queue, show_boxes = True.
InitPage ==
    /\ detection_result_queue = << >>
    /\ received = 0
    /\ show_boxes = TRUE
    /\ pagepc = "idle"

\* _detector = None, and no thread inside get_detector.
InitLoading ==
    /\ global_detector = 0
    /\ constructed = 0
    /\ gpc = [t \in Loaders |-> "idle"]
    /\ built = [t \in Loaders |-> 0]
    /\ got = [t \in Loaders |-> 0]
    /\ calls = [t \in Loaders |-> 0]

\* Before the worker has done anything.
InitLocals ==
    /\ InitPage
    /\ InitLoading
    /\ conf = 0
    /\ detector = "none"
    /\ cap = "none"
    /\ releases = 0
    /\ fails = 0
    /\ annotated_frame = "none"
    /\ detections = << >>
    /\ summary = NoSummary
    /\ after_stop = [reads |-> 0, pushes |-> 0]
    /\ fault = "none"
    /\ raised = FALSE

InitDetail ==
    /\ confidence_threshold = DefaultConfidence
    /\ InitLocals

Init ==
    /\ app \in Apps
    /\ camera_active = FALSE
    /\ stop_camera = FALSE
    /\ ip_url \in {"good", "bad"}
    /\ pending = NoEvent
    /\ status = "none"
    /\ mainpc = "idle"
    /\ nruns = 0
    /\ url = [r \in Runs |-> ""]
    /\ frame_queue = [r \in Runs |-> <<>>]
    /\ stop_event = [r \in Runs |-> FALSE]
    /\ wpc = [r \in Runs |-> "none"]
    /\ nframes = 0
    /\ frame = [r \in Runs |-> 0]
    /\ dropped = [r \in Runs |-> {}]
    /\ delivered = [r \in Runs |-> <<>>]
    /\ InitDetail

\* ------------------------------------------------------ the script thread
\* The address field after interaction e that (for an edit) typed u.
UrlAfter(e, u) == IF e = "edit" THEN u ELSE ip_url

\* stop_event = threading.Event(): a new, unset event for run r
SharedEvent(ev, r) == [x \in DOMAIN ev |-> FALSE]
FreshEvent(ev, r) == [ev EXCEPT ![r] = FALSE]

\* frame_queue = queue.Queue(maxsize=5): a new, empty queue for run r
SharedQueue(q, r) == [q EXCEPT ![r] = IF r > 1 THEN q[r - 1] ELSE << >>]
FreshQueue(q, r) == [q EXCEPT ![r] = << >>]

\* queue.Queue(maxsize=5), threading.Event(), Thread(...).start()
Spawn(R, u, next) ==
    /\ nruns < R
    /\ nruns' = nruns + 1
    /\ url' = [url EXCEPT ![nruns + 1] = u]
    /\ frame_queue' = FreshQueue(frame_queue, nruns + 1)
    /\ stop_event' = FreshEvent(stop_event, nruns + 1)
    /\ wpc' = [wpc EXCEPT ![nruns + 1] = "open"]
    /\ mainpc' = next
    /\ UNCHANGED <<nframes, frame, dropped, delivered>>

NoSpawn ==
    /\ mainpc' = "idle"
    /\ UNCHANGED <<nruns, frame_queue, stop_event, workers, delivered>>

\* The interaction a new execution of the script handles: the one that
\* interrupted the previous execution, or a new one.
Handles(e) ==
    /\ mainpc = "idle"
    /\ pending # NoEvent => e = pending

\* app_improved.main for interaction e, from "Handle button clicks" to the
\* start of the worker.  Each button handler ends in an st.* call, which
\* raises when a further interaction `int` has arrived meanwhile.
ScriptImproved(R, e, u, int) ==
    LET addr       == IF pending = NoEvent THEN UrlAfter(e, u) ELSE ip_url
        startFires == e = "start" /\ ~camera_active
        started    == startFires /\ addr # ""
        a1         == IF started THEN TRUE ELSE camera_active
        s1         == IF started THEN FALSE ELSE stop_camera
        stopFires  == e = "stop" /\ a1
        a2         == IF stopFires THEN FALSE ELSE a1
        s2         == IF stopFires THEN TRUE ELSE s1
        msg        == IF started THEN "starting"
                      ELSE IF startFires THEN "url_warning"
                      ELSE IF stopFires THEN "stopping" ELSE "none"
    IN  /\ app = "improved"
        /\ Handles(e)
        /\ int # NoEvent => startFires \/ stopFires
        /\ camera_active' = a2
        /\ stop_camera' = s2
        /\ pending' = int
        /\ UNCHANGED <<detail, app>>
        /\ IF int # NoEvent
           THEN /\ ip_url' = UrlAfter(int, u)
                /\ status' = "none"
                /\ NoSpawn
           ELSE /\ ip_url' = addr
                /\ status' = msg
                /\ IF a2 /\ ~s2 THEN Spawn(R, addr, "loop") ELSE NoSpawn

\* app_fixed for interaction e, from "Handle buttons" to worker.start().
ScriptFixed(R, e, u) ==
    LET addr == IF pending = NoEvent THEN UrlAfter(e, u) ELSE ip_url
        a1   == IF e = "start" THEN TRUE ELSE camera_active
        a2   == IF e = "stop" THEN FALSE ELSE a1
    IN  /\ app = "fixed"
        /\ Handles(e)
        /\ ip_url' = addr
        /\ camera_active' = a2
        /\ pending' = NoEvent
        /\ UNCHANGED <<detail, app, stop_camera>>
        /\ IF addr # "" /\ a2
           THEN IF ~Opens(addr)
                THEN status' = "conn_error" /\ NoSpawn
                ELSE status' = "none" /\ Spawn(R, addr, "stempty")
           ELSE /\ status' = IF a2 THEN "url_warning" ELSE "none"
                /\ NoSpawn

\* An st.* call inside the script finds request `int` (an edit typed u).
Interrupted(int, u) ==
    /\ pending' = int
    /\ ip_url' = UrlAfter(int, u)

\* app_fixed: stframe = st.empty(), after worker.start() and before try.
\* It raises when an interaction has arrived since the script started.
StEmpty(int, u) ==
    /\ mainpc = "stempty"
    /\ Interrupted(int, u)
    /\ mainpc' = IF int # NoEvent THEN "idle" ELSE "loop"
    /\ UNCHANGED <<detail, app, session, status, nruns, frame_queue,
                   stop_event, workers, delivered>>

\* Where the display loop goes when an st.* call inside it raises the
\* rerun request: `except Exception` does not catch it, `finally` runs.
OnRerunContinue == "loop"
OnRerun == "finally"

\* The display loop's condition.
LoopCond ==
    IF app = "improved" THEN camera_active /\ ~stop_camera ELSE camera_active

DisplayLoop ==
    /\ mainpc = "loop"
    /\ mainpc' = IF LoopCond THEN "get" ELSE "finally"
    /\ UNCHANGED <<detail, app, session, ui, nruns, frame_queue, stop_event,
                   workers, delivered>>

\* frame_queue.get(timeout=1.0) returns the head of the queue.
DisplayGet ==
    /\ mainpc = "get"
    /\ frame_queue[nruns] # <<>>
    /\ delivered' = [delivered EXCEPT
                        ![nruns] = Append(@, QGetItem(frame_queue[nruns]))]
    /\ frame_queue' = [frame_queue EXCEPT ![nruns] = QGetRest(@)]
    /\ mainpc' = "render"
    /\ UNCHANGED <<detail, app, session, ui, nruns, stop_event, workers>>

\* except queue.Empty: ...; continue
OnEmptyBreak == "finally"
OnEmpty == "loop"

\* frame_queue.get(timeout=1.0) raises queue.Empty; the "waiting for
\* frames" message is an st.* call.
DisplayEmpty(int, u) ==
    /\ mainpc = "get"
    /\ frame_queue[nruns] = <<>>
    /\ Interrupted(int, u)
    /\ IF int # NoEvent
       THEN mainpc' = OnRerun /\ status' = status
       ELSE mainpc' = OnEmpty /\ status' = "waiting"
    /\ UNCHANGED <<detail, app, session, nruns, frame_queue, stop_event,
                   workers, delivered>>

\* Rendering the packet: its first st.* call raises when an interaction
\* has arrived; otherwise rendering succeeds or raises an unexpected error.
DisplayRender(int, u, ok) ==
    /\ mainpc = "render"
    /\ Interrupted(int, u)
    /\ int # NoEvent => ok
    /\ IF int # NoEvent
       THEN mainpc' = OnRerun /\ status' = status
       ELSE IF ok
            THEN mainpc' = "loop" /\ status' = "live"
            ELSE mainpc' = "finally" /\ status' = "display_error"
    /\ UNCHANGED <<detail, app, session, nruns, frame_queue, stop_event,
                   workers, delivered>>

\* finally: stop_event.set(); camera_active = False
FinallyKeepsEvent(ev, r) == ev
FinallySetsEvent(ev, r) == [ev EXCEPT ![r] = TRUE]

DisplayFinally ==
    /\ mainpc = "finally"
    /\ stop_event' = FinallySetsEvent(stop_event, nruns)
    /\ camera_active' = FALSE
    /\ mainpc' = IF app = "improved" THEN "join" ELSE "idle"
    /\ UNCHANGED <<detail, app, stop_camera, ui, nruns, frame_queue, workers,
                   delivered>>

\* if camera_thread.is_alive(): camera_thread.join(timeout=2)
JoinWaitsForWorker(w) == w = "done"
JoinReturns(w) == TRUE

DisplayJoin ==
    /\ mainpc = "join"
    /\ JoinReturns(wpc[nruns])
    /\ mainpc' = "idle"
    /\ UNCHANGED <<detail, app, session, ui, nruns, frame_queue, stop_event,
                   workers, delivered>>

\* ------------------------------------------------------ the worker thread
\* cv2.VideoCapture(url); if not cap.isOpened(): return
WorkerOpen(w) ==
    /\ wpc[w] = "open"
    /\ wpc' = [wpc EXCEPT ![w] = IF Opens(url[w]) THEN "loop" ELSE "done"]
    /\ url' = [url EXCEPT ![w] = ""]
    /\ UNCHANGED <<detail, app, session, ui, mainpc, nruns, nframes, frame_queue,
                   stop_event, frame, dropped, delivered>>

\* while not stop_event.is_set(): ...; after the loop cap.release() and
\* the thread ends
WorkerLoop(w) ==
    /\ wpc[w] = "loop"
    /\ wpc' = [wpc EXCEPT ![w] = IF stop_event[w] THEN "done" ELSE "read"]
    /\ UNCHANGED <<detail, app, session, ui, mainpc, nruns, url, nframes,
                   frame_queue, stop_event, frame, dropped, delivered>>

\* ret, frame = cap.read() gives the camera's next frame; detection and
\* colour conversion turn it into a packet
WorkerRead(w, F) ==
    /\ wpc[w] = "read"
    /\ nframes < F
    /\ nframes' = nframes + 1
    /\ frame' = [frame EXCEPT ![w] = nframes + 1]
    /\ wpc' = [wpc EXCEPT ![w] = "full"]
    /\ UNCHANGED <<detail, app, session, ui, mainpc, nruns, url, frame_queue,
                   stop_event, dropped, delivered>>

\* ret, frame = cap.read(); if not ret: break; cap.release()
WorkerReadFails(w) ==
    /\ wpc[w] = "read"
    /\ wpc' = [wpc EXCEPT ![w] = "done"]
    /\ UNCHANGED <<detail, app, session, ui, mainpc, nruns, url, nframes,
                   frame_queue, stop_event, frame, dropped, delivered>>

\* if not frame_queue.full(): ... else the packet is discarded; time.sleep
WorkerCheckFullSkipped(w) ==
    /\ wpc[w] = "full"
    /\ wpc' = [wpc EXCEPT ![w] = "put"]
    /\ UNCHANGED <<detail, app, session, ui, mainpc, nruns, url, nframes,
                   frame_queue, stop_event, frame, dropped, delivered>>

WorkerCheckFull(w) ==
    /\ wpc[w] = "full"
    /\ IF QFull(frame_queue[w])
       THEN /\ dropped' = [dropped EXCEPT ![w] = @ \cup {frame[w]}]
            /\ frame' = [frame EXCEPT ![w] = 0]
            /\ wpc' = [wpc EXCEPT ![w] = "loop"]
       ELSE /\ UNCHANGED <<dropped, frame>>
            /\ wpc' = [wpc EXCEPT ![w] = "put"]
    /\ UNCHANGED <<detail, app, session, ui, mainpc, nruns, url, nframes,
                   frame_queue, stop_event, delivered>>

\* frame_queue.put(...): waits while the queue is full; then time.sleep
WorkerPut(w) ==
    /\ wpc[w] = "put"
    /\ ~QFull(frame_queue[w])
    /\ frame_queue' = [frame_queue EXCEPT ![w] = QPut(@, Packet(w, frame[w]))]
    /\ frame' = [frame EXCEPT ![w] = 0]
    /\ wpc' = [wpc EXCEPT ![w] = "loop"]
    /\ UNCHANGED <<detail, app, session, ui, mainpc, nruns, url, nframes,
                   stop_event, dropped, delivered>>

\* ------------------------------------------------------------ the detector
\* Detections of at most this many objects are enumerated.
MaxDetections == 3

Classes == {"person", "car"}
\* float(confidence), in hundredths
Confidences == {60, 80}
\* detections.append({'box', 'confidence', 'class_id', 'class_name'})
Detection(c, k) == [class_name |-> c, confidence |-> k]
DetectionLists ==
    UNION {[1..n -> {Detection(c, k) : c \in Classes, k \in Confidences}] :
              n \in 0..MaxDetections}

\* class_counts[class_name] = class_counts.get(class_name, 0) + 1, for each
\* detection in list order
RECURSIVE CountClassesOverwrite(_, _)
CountClassesOverwrite(dets, class_counts) ==
    IF dets = << >> THEN class_counts
    ELSE LET c == Head(dets).class_name
         IN  CountClassesOverwrite(Tail(dets),
                [k \in DOMAIN class_counts \cup {c} |->
                    IF k = c THEN 1 ELSE class_counts[k]])

RECURSIVE CountClasses(_, _)
CountClasses(dets, class_counts) ==
    IF dets = << >> THEN class_counts
    ELSE LET c == Head(dets).class_name
             n == IF c \in DOMAIN class_counts THEN class_counts[c] ELSE 0
         IN  CountClasses(Tail(dets),
                [k \in DOMAIN class_counts \cup {c} |->
                    IF k = c THEN n + 1 ELSE class_counts[k]])

RECURSIVE SumConfidence(_)
SumConfidence(dets) ==
    IF dets = << >> THEN 0
    ELSE Head(dets).confidence + SumConfidence(Tail(dets))

\* np.mean([d['confidence'] for d in detections]): the sum of the values
\* over their number, kept as a fraction (floating-point rounding aside).
MeanOverClasses(dets) ==
    [num |-> SumConfidence(dets),
     den |-> Cardinality({dets[i].class_name : i \in 1..Len(dets)})]
Mean(dets) == [num |-> SumConfidence(dets), den |-> Len(dets)]

\* ObjectDetector.get_detection_summary
SummaryAlwaysAveraged(dets) ==
    [total_objects |-> Len(dets),
     classes |-> CountClasses(dets, << >>),
     avg_confidence |-> Mean(dets)]
get_detection_summary(dets) ==
    IF dets = << >>
    THEN NoSummary
    ELSE [total_objects |-> Len(dets),
          classes |-> CountClasses(dets, << >>),
          avg_confidence |-> Mean(dets)]

\* What a detector call meets: whether the model file loads (when it has
\* to be loaded), how inference goes, and the boxes the model reports.
Faults == {"inference", "boxes", "plot", "summary"}
Steps == {"ok", "empty"} \cup Faults
Outcomes(lists) ==
    [load : BOOLEAN, step : {"ok"}, boxes : lists]
       \cup [load : BOOLEAN, step : Steps \ {"ok"}, boxes : {<< >>}]

\* return frame, detections, summary / an exception leaves the call
Returned(f, d, s) ==
    [frame |-> f, detections |-> d, summary |-> s, raised |-> FALSE]
Raises ==
    [frame |-> "none", detections |-> << >>, summary |-> NoSummary,
     raised |-> TRUE]

\* get_detector: the global is set only when ObjectDetector(...) returns;
\* _load_model re-raises when the model cannot be loaded.
get_detector(d, load) ==
    IF d = "none"
    THEN IF load THEN [detector |-> "loaded", raised |-> FALSE]
                 ELSE [detector |-> "none", raised |-> TRUE]
    ELSE [detector |-> d, raised |-> FALSE]

\* ObjectDetector.detect_objects_detailed(frame, conf_threshold)
ObjectDetector_detect_objects_detailed(model, f, step, boxes) ==
    IF model = "none" THEN Returned(f, << >>, NoSummary)
    ELSE IF step \in Faults THEN Returned(f, << >>, NoSummary)
    ELSE IF step = "empty" THEN Returned(f, << >>, NoSummary)
    ELSE Returned("annotated", boxes, get_detection_summary(boxes))

\* detect_objects_detailed(frame, confidence), the module-level function
detect_objects_detailed_unguarded(d, f, o) ==
    LET g == get_detector(d, o.load)
    IN  IF g.raised THEN Raises
        ELSE ObjectDetector_detect_objects_detailed(g.detector, f, o.step,
                                                    o.boxes)
detect_objects_detailed(d, f, o) ==
    LET g == get_detector(d, o.load)
        r == ObjectDetector_detect_objects_detailed(g.detector, f, o.step,
                                                    o.boxes)
    IN  IF g.raised \/ r.raised THEN Returned(f, << >>, NoSummary) ELSE r

\* detect_objects(frame, confidence): the annotated frame only
detect_objects(d, f, o) ==
    LET g == get_detector(d, o.load)
    IN  IF g.raised THEN Returned(f, << >>, NoSummary)
        ELSE Returned(ObjectDetector_detect_objects_detailed(
                         g.detector, f, o.step, o.boxes).frame,
                      << >>, NoSummary)

\* The internal error a call with outcome o meets, if any.
FaultMet(d, o) ==
    IF d = "none" /\ ~o.load THEN "load"
    ELSE IF o.step \in Faults THEN o.step ELSE "none"

\* A call of detect_objects_detailed(frame, confidence=c) that meets o,
\* and what its caller holds afterwards.
Detects(f, c, o) ==
    LET r == detect_objects_detailed(detector, f, o)
    IN  /\ detector' = get_detector(detector, o.load).detector
        /\ conf' = c
        /\ annotated_frame' = r.frame
        /\ detections' = r.detections
        /\ summary' = r.summary
        /\ raised' = r.raised
        /\ fault' = FaultMet(detector, o)

\* Any caller, any confidence of the slider's range, any outcome.
Thresholds == {DefaultConfidence, 70}
DetectCall(c, o) ==
    /\ Detects("raw", c, o)
    /\ UNCHANGED <<pipeline, confidence_threshold, cap, releases, fails,
                   after_stop, webrtc, loading>>

\* ------------------------------------------- the worker thread, in detail
\* Frames the camera delivers in one behaviour of SpecStream.
MaxStreamFrames == 2

\* detect_objects_detailed(frame, confidence=0.5), in hundredths
WorkerConfidence == 50

\* What the camera shows: nothing, or a person and a car.
Scenes == {<< >>, <<Detection("person", 60), Detection("car", 80)>>}

\* cv2.cvtColor(image, cv2.COLOR_BGR2RGB)
cvtColorSkipped(img) == img
cvtColor(img) == IF img = "annotated" THEN "annotated_rgb" ELSE "raw_rgb"

\* {'frame': ..., 'detections': ..., 'summary': ...} (app_improved), the
\* bare frame (app_fixed)
ResultPacket(w, n, img, dets, sum) ==
    IF app = "improved"
    THEN [worker |-> w, frame |-> n, image |-> img, detections |-> dets,
          summary |-> sum]
    ELSE [worker |-> w, frame |-> n, image |-> img]

\* while not stop_event.is_set()
StopObservedNever(w) == FALSE
StopObserved(w) == stop_event[w]

\* What each worker step leaves alone.
StreamFrame(w) ==
    UNCHANGED <<app, session, ui, mainpc, nruns, url, stop_event, delivered,
                confidence_threshold, webrtc, loading>>

\* if not cap.isOpened(): return -- in app_improved through the finally
\* block of camera_stream, in app_fixed straight out of camera_worker
OnOpenFailureGoesOn(a) == "loop"
OnOpenFailure(a) == IF a = "improved" THEN "finally" ELSE "done"

\* cap = cv2.VideoCapture(url); if not cap.isOpened(): return
StreamOpen(w) ==
    /\ wpc[w] = "open"
    /\ cap' = IF Opens(url[w]) THEN "open" ELSE "unopened"
    /\ wpc' = [wpc EXCEPT ![w] =
                  IF Opens(url[w]) THEN "loop" ELSE OnOpenFailure(app)]
    /\ StreamFrame(w)
    /\ UNCHANGED <<nframes, frame_queue, frame, dropped, conf, detector,
                   releases, fails, annotated_frame, detections, summary,
                   after_stop, fault, raised>>

\* while not stop_event.is_set(): ...; after the loop, cap.release()
StreamLoop(w) ==
    /\ wpc[w] = "loop"
    /\ wpc' = [wpc EXCEPT ![w] = IF StopObserved(w) THEN "finally" ELSE "read"]
    /\ StreamFrame(w)
    /\ UNCHANGED <<nframes, frame_queue, frame, dropped, conf, detector, cap,
                   releases, fails, annotated_frame, detections, summary,
                   after_stop, fault, raised>>

\* The reads counted while the stop signal is set.
ReadCounted(w) ==
    [after_stop EXCEPT !.reads = IF stop_event[w] THEN @ + 1 ELSE @]

\* ret, frame = cap.read() with ret true
StreamRead(w, F) ==
    /\ wpc[w] = "read"
    /\ nframes < F
    /\ nframes' = nframes + 1
    /\ frame' = [frame EXCEPT ![w] = nframes + 1]
    /\ fails' = 0
    /\ after_stop' = ReadCounted(w)
    /\ wpc' = [wpc EXCEPT ![w] = "detect"]
    /\ StreamFrame(w)
    /\ UNCHANGED <<frame_queue, dropped, conf, detector, cap, releases,
                   annotated_frame, detections, summary, fault, raised>>

\* ret, frame = cap.read() with ret false; if not ret: break
StreamReadFails(w) ==
    /\ wpc[w] = "read"
    /\ fails' = fails + 1
    /\ after_stop' = ReadCounted(w)
    /\ wpc' = [wpc EXCEPT ![w] = "finally"]
    /\ StreamFrame(w)
    /\ UNCHANGED <<nframes, frame_queue, frame, dropped, conf, detector, cap,
                   releases, annotated_frame, detections, summary, fault,
                   raised>>

\* app_improved: annotated_frame, detections, summary =
\* detect_objects_detailed(frame, confidence=0.5);
\* app_fixed: annotated_frame = detect_objects(frame)
StreamDetect(w, o) ==
    /\ wpc[w] = "detect"
    /\ IF app = "improved"
       THEN Detects("raw", WorkerConfidence, o)
       ELSE /\ annotated_frame' = detect_objects(detector, "raw", o).frame
            /\ detector' = get_detector(detector, o.load).detector
            /\ conf' = WorkerConfidence
            /\ fault' = FaultMet(detector, o)
            /\ UNCHANGED <<detections, summary, raised>>
    /\ wpc' = [wpc EXCEPT ![w] = IF raised' THEN "except" ELSE "convert"]
    /\ StreamFrame(w)
    /\ UNCHANGED <<nframes, frame_queue, frame, dropped, cap, releases,
                   fails, after_stop>>

\* annotated_frame = cv2.cvtColor(annotated_frame, cv2.COLOR_BGR2RGB); when
\* it raises, app_improved goes to its except clause and app_fixed's
\* thread ends with the exception.
StreamConvert(w, ok) ==
    /\ wpc[w] = "convert"
    /\ annotated_frame' = IF ok THEN cvtColor(annotated_frame)
                          ELSE annotated_frame
    /\ wpc' = [wpc EXCEPT ![w] =
                  IF ok THEN "full"
                  ELSE IF app = "improved" THEN "except" ELSE "crashed"]
    /\ StreamFrame(w)
    /\ UNCHANGED <<nframes, frame_queue, frame, dropped, conf, detector, cap,
                   releases, fails, detections, summary, after_stop, fault,
                   raised>>

\* if not frame_queue.full(): ... else the packet is discarded; time.sleep
StreamCheckFull(w) ==
    /\ wpc[w] = "full"
    /\ IF QFull(frame_queue[w])
       THEN /\ dropped' = [dropped EXCEPT ![w] = @ \cup {frame[w]}]
            /\ frame' = [frame EXCEPT ![w] = 0]
            /\ wpc' = [wpc EXCEPT ![w] = "loop"]
       ELSE /\ UNCHANGED <<dropped, frame>>
            /\ wpc' = [wpc EXCEPT ![w] = "put"]
    /\ StreamFrame(w)
    /\ UNCHANGED <<nframes, frame_queue, conf, detector, cap, releases,
                   fails, annotated_frame, detections, summary, after_stop,
                   fault, raised>>

\* The pushes counted while the stop signal is set.
PushCounted(w) ==
    [after_stop EXCEPT !.pushes = IF stop_event[w] THEN @ + 1 ELSE @]

\* frame_queue.put({...}); time.sleep(0.033)
StreamPut(w) ==
    /\ wpc[w] = "put"
    /\ ~QFull(frame_queue[w])
    /\ frame_queue' = [frame_queue EXCEPT ![w] =
           QPut(@, ResultPacket(w, frame[w], annotated_frame, detections,
                                summary))]
    /\ frame' = [frame EXCEPT ![w] = 0]
    /\ after_stop' = PushCounted(w)
    /\ wpc' = [wpc EXCEPT ![w] = "loop"]
    /\ StreamFrame(w)
    /\ UNCHANGED <<nframes, dropped, conf, detector, cap, releases, fails,
                   annotated_frame, detections, summary, fault, raised>>

\* except Exception: frame_rgb = cv2.cvtColor(frame, cv2.COLOR_BGR2RGB);
\* when that raises too, the outer except clause takes over.
StreamExcept(w, ok) ==
    /\ wpc[w] = "except"
    /\ annotated_frame' = IF ok THEN cvtColor("raw") ELSE annotated_frame
    /\ wpc' = [wpc EXCEPT ![w] = IF ok THEN "fallback" ELSE "outer"]
    /\ StreamFrame(w)
    /\ UNCHANGED <<nframes, frame_queue, frame, dropped, conf, detector, cap,
                   releases, fails, detections, summary, after_stop, fault,
                   raised>>

\* if not frame_queue.full(): frame_queue.put({'frame': frame_rgb,
\* 'detections': [], 'summary': {'total_objects': 0, 'classes': {}}})
StreamFallback(w) ==
    /\ wpc[w] = "fallback"
    /\ IF QFull(frame_queue[w])
       THEN /\ dropped' = [dropped EXCEPT ![w] = @ \cup {frame[w]}]
            /\ UNCHANGED <<frame_queue, after_stop>>
       ELSE /\ frame_queue' = [frame_queue EXCEPT ![w] =
                   QPut(@, ResultPacket(w, frame[w], annotated_frame, << >>,
                                        NoSummary))]
            /\ after_stop' = PushCounted(w)
            /\ UNCHANGED dropped
    /\ frame' = [frame EXCEPT ![w] = 0]
    /\ wpc' = [wpc EXCEPT ![w] = "loop"]
    /\ StreamFrame(w)
    /\ UNCHANGED <<nframes, conf, detector, cap, releases, fails,
                   annotated_frame, detections, summary, fault, raised>>

\* except Exception as e: st.error(...)
StreamOuter(w) ==
    /\ wpc[w] = "outer"
    /\ wpc' = [wpc EXCEPT ![w] = "finally"]
    /\ StreamFrame(w)
    /\ UNCHANGED <<nframes, frame_queue, frame, dropped, conf, detector, cap,
                   releases, fails, annotated_frame, detections, summary,
                   after_stop, fault, raised>>

\* app_improved: finally: if cap is not None: cap.release();
\* app_fixed: cap.release() after the loop
StreamRelease(w) ==
    /\ wpc[w] = "finally"
    /\ releases' = releases + 1
    /\ cap' = IF cap = "open" THEN "released" ELSE cap
    /\ wpc' = [wpc EXCEPT ![w] = "done"]
    /\ StreamFrame(w)
    /\ UNCHANGED <<nframes, frame_queue, frame, dropped, conf, detector,
                   fails, annotated_frame, detections, summary, after_stop,
                   fault, raised>>

Stream(w, F) ==
    \/ StreamOpen(w)
    \/ StreamLoop(w)
    \/ StreamRead(w, F)
    \/ StreamReadFails(w)
    \/ \E o \in Outcomes(Scenes) : StreamDetect(w, o)
    \/ \E ok \in BOOLEAN : StreamConvert(w, ok)
    \/ StreamCheckFull(w)
    \/ StreamPut(w)
    \/ \E ok \in BOOLEAN : StreamExcept(w, ok)
    \/ StreamFallback(w)
    \/ StreamOuter(w)
    \/ StreamRelease(w)

\* The display loop of the run, to its end; the address field stays.
DisplayRun ==
    \/ DisplayLoop
    \/ DisplayGet
    \/ \E int \in Requests : DisplayEmpty(int, ip_url)
    \/ \E int \in Requests, ok \in BOOLEAN : DisplayRender(int, ip_url, ok)
    \/ DisplayFinally
    \/ DisplayJoin

\* -------------------------------------------------------- specifications
Main(R) ==
    \/ \E e \in Events, u \in Urls, int \in Requests :
          ScriptImproved(R, e, u, int)
    \/ \E e \in Events, u \in Urls : ScriptFixed(R, e, u)
    \/ \E int \in Requests, u \in Urls : StEmpty(int, u)
    \/ DisplayLoop
    \/ DisplayGet
    \/ \E int \in Requests, u \in Urls : DisplayEmpty(int, u)
    \/ \E int \in Requests, u \in Urls, ok \in BOOLEAN :
          DisplayRender(int, u, ok)
    \/ DisplayFinally
    \/ DisplayJoin

Worker(F) ==
    \E w \in Runs :
        \/ WorkerOpen(w)
        \/ WorkerLoop(w)
        \/ WorkerRead(w, F)
        \/ WorkerReadFails(w)
        \/ WorkerCheckFull(w)
        \/ WorkerPut(w)

\* Several runs, few frames each: the lifecycle.
Next == Main(MaxRuns) \/ Worker(MaxFrames)
Spec == Init /\ [][Next]_vars

\* One run, enough frames to fill the queue: the channel.
NextChannel == Main(1) \/ Worker(MaxChannelFrames)
SpecChannel == Init /\ [][NextChannel]_vars

\* The steps the program takes by itself, without the user.
Display ==
    \/ StEmpty(NoEvent, "")
    \/ DisplayLoop
    \/ DisplayGet
    \/ DisplayEmpty(NoEvent, "")
    \/ DisplayRender(NoEvent, "", TRUE)
    \/ DisplayFinally
    \/ DisplayJoin

WorkerStep(w) ==
    \/ WorkerOpen(w)
    \/ WorkerLoop(w)
    \/ WorkerRead(w, MaxFrames)
    \/ WorkerReadFails(w)
    \/ WorkerCheckFull(w)
    \/ WorkerPut(w)

\* Both threads are scheduled; the user need not do anything.
SpecFair ==
    /\ Spec
    /\ WF_vars(Display)
    /\ \A w \in Runs : WF_vars(WorkerStep(w))

\* One run in which only the script thread's teardown is scheduled: the
\* worker may never take a step.
SpecTeardown ==
    /\ SpecChannel
    /\ WF_vars(DisplayFinally)
    /\ WF_vars(DisplayJoin)

\* One run whose worker is scheduled whenever it can take a step, with a
\* camera that may deliver a frame or fail at every read; the script thread
\* and the user need not do anything.
WorkerRun(w) ==
    \/ WorkerOpen(w)
    \/ WorkerLoop(w)
    \/ WorkerRead(w, MaxChannelFrames)
    \/ WorkerReadFails(w)
    \/ WorkerCheckFull(w)
    \/ WorkerPut(w)
SpecStop == SpecChannel /\ \A w \in Runs : WF_vars(WorkerRun(w))

\* One run from the start of its worker: the worker thread in detail, the
\* script thread in its display loop.  app_fixed has no confidence slider.
InitStream ==
    /\ app \in Apps
    /\ camera_active = TRUE
    /\ stop_camera = FALSE
    /\ ip_url \in {"good", "bad"}
    /\ pending = NoEvent
    /\ status = "none"
    /\ mainpc = "loop"
    /\ nruns = 1
    /\ url = [r \in Runs |-> IF r = 1 THEN ip_url ELSE ""]
    /\ frame_queue = [r \in Runs |-> <<>>]
    /\ stop_event = [r \in Runs |-> FALSE]
    /\ wpc = [r \in Runs |-> IF r = 1 THEN "open" ELSE "none"]
    /\ nframes = 0
    /\ frame = [r \in Runs |-> 0]
    /\ dropped = [r \in Runs |-> {}]
    /\ delivered = [r \in Runs |-> <<>>]
    /\ InitLocals
    /\ confidence_threshold \in
          IF app = "improved" THEN Thresholds ELSE {DefaultConfidence}

NextStream == DisplayRun \/ Stream(1, MaxStreamFrames)
SpecStream == InitStream /\ [][NextStream]_vars

\* ------------------------------------------------------ the WebRTC page
\* queue.Queue.put_nowait raises queue.Full when 0 < maxsize <= qsize().
ResultFull(q) == 0 < ResultMaxsize /\ ResultMaxsize <= Len(q)

\* try: detection_result_queue.put_nowait(item) except queue.Full: pass
put_nowait(q, item) == IF ResultFull(q) THEN q ELSE Append(q, item)

\* {'detections': detections, 'summary': summary}
Result(r) == [detections |-> r.detections, summary |-> r.summary]

\* VideoProcessor.recv(frame): ok is whether frame.to_ndarray succeeds, o
\* what the detector meets; the detector was constructed in __init__.
recv(ok, o) ==
    /\ received < MaxResultFrames
    /\ received' = received + 1
    /\ detection_result_queue' =
          IF ok /\ show_boxes
          THEN put_nowait(detection_result_queue,
                          Result(ObjectDetector_detect_objects_detailed(
                                    "loaded", "raw", o.step, o.boxes)))
          ELSE detection_result_queue
    /\ UNCHANGED <<pipeline, locals, loading, show_boxes, pagepc>>

\* One execution of main down to the results column: the checkbox value
\* goes to video_processor.show_boxes, and the queue is drained only if
\* show_stats and webrtc_ctx.state.playing.
PageRun(show, shown) ==
    /\ pagepc = "idle"
    /\ show_boxes' = show
    /\ pagepc' = IF shown THEN "drain" ELSE "idle"
    /\ UNCHANGED <<pipeline, locals, loading, detection_result_queue,
                   received>>

\* while not detection_result_queue.empty(): result = get_nowait(); the
\* st.* calls that render it end the execution on a pending rerun (int).
PageGet(int) ==
    /\ pagepc = "drain"
    /\ detection_result_queue # << >>
    /\ detection_result_queue' = Tail(detection_result_queue)
    /\ pagepc' = IF int THEN "idle" ELSE "drain"
    /\ UNCHANGED <<pipeline, locals, loading, received, show_boxes>>

\* the queue is empty: the execution ends
PageDone ==
    /\ pagepc = "drain"
    /\ detection_result_queue = << >>
    /\ pagepc' = "idle"
    /\ UNCHANGED <<pipeline, locals, loading, detection_result_queue,
                   received, show_boxes>>

NextWebrtc ==
    \/ \E ok \in BOOLEAN, o \in Outcomes(Scenes) : recv(ok, o)
    \/ \E show \in BOOLEAN, shown \in BOOLEAN : PageRun(show, shown)
    \/ \E int \in BOOLEAN : PageGet(int)
    \/ PageDone
\* The page does not depend on the pipeline's front end or address.
InitWebrtc == Init /\ app = "improved" /\ ip_url = "good"
SpecWebrtc == InitWebrtc /\ [][NextWebrtc]_vars

\* ------------------------------------ get_detector, statement by statement
\* A thread enters get_detector().
GetDetectorCall(t) ==
    /\ gpc[t] = "idle"
    /\ calls[t] < MaxCalls
    /\ calls' = [calls EXCEPT ![t] = @ + 1]
    /\ gpc' = [gpc EXCEPT ![t] = "check"]
    /\ UNCHANGED <<pipeline, locals, webrtc, global_detector, constructed,
                   built, got>>

\* if _detector is None:
GetDetectorCheck(t) ==
    /\ gpc[t] = "check"
    /\ gpc' = [gpc EXCEPT ![t] =
                  IF global_detector = 0 THEN "construct" ELSE "return"]
    /\ UNCHANGED <<pipeline, locals, webrtc, global_detector, constructed,
                   built, got, calls>>

\* ObjectDetector(model_path, confidence): the model is loaded, or
\* _load_model re-raises and the call is left with _detector as it was.
GetDetectorConstruct(t, load) ==
    /\ gpc[t] = "construct"
    /\ constructed' = IF load THEN constructed + 1 ELSE constructed
    /\ built' = [built EXCEPT ![t] = IF load THEN constructed + 1 ELSE 0]
    /\ gpc' = [gpc EXCEPT ![t] = IF load THEN "assign" ELSE "idle"]
    /\ UNCHANGED <<pipeline, locals, webrtc, global_detector, got, calls>>

\* _detector = <the new instance>
GetDetectorAssign(t) ==
    /\ gpc[t] = "assign"
    /\ global_detector' = built[t]
    /\ built' = [built EXCEPT ![t] = 0]
    /\ gpc' = [gpc EXCEPT ![t] = "return"]
    /\ UNCHANGED <<pipeline, locals, webrtc, constructed, got, calls>>

\* return _detector
GetDetectorReturn(t) ==
    /\ gpc[t] = "return"
    /\ got' = [got EXCEPT ![t] = global_detector]
    /\ gpc' = [gpc EXCEPT ![t] = "idle"]
    /\ UNCHANGED <<pipeline, locals, webrtc, global_detector, constructed,
                   built, calls>>

GetDetector(t) ==
    \/ GetDetectorCall(t)
    \/ GetDetectorCheck(t)
    \/ \E load \in BOOLEAN : GetDetectorConstruct(t, load)
    \/ GetDetectorAssign(t)
    \/ GetDetectorReturn(t)

NextLoader == \E t \in Loaders : GetDetector(t)
\* The module does not depend on the front end or the address.
InitLoader == Init /\ app = "improved" /\ ip_url = "good"
SpecLoader == InitLoader /\ [][NextLoader]_vars

\* The detector alone: calls on every detection list and outcome.
NextDetector ==
    \E c \in Thresholds, o \in Outcomes(DetectionLists) : DetectCall(c, o)
\* The detector does not depend on the front end or the address.
InitDetector == Init /\ app = "improved" /\ ip_url = "good"
SpecDetector == InitDetector /\ [][NextDetector]_vars

\* ---------------------------------------------------------------- claims
QueuedFrames(r) == {frame_queue[r][i].frame : i \in 1..Len(frame_queue[r])}
DeliveredFrames(r) == {delivered[r][i].frame : i \in 1..Len(delivered[r])}
\* The packets worker r has pushed, kept or not.
PushedFrames(r) == QueuedFrames(r) \cup DeliveredFrames(r) \cup dropped[r]
Increasing(q) ==
    \A i, j \in 1..Len(q) : i < j => q[i].frame < q[j].frame
\* The display loop of the current run is executing.
Running ==
    /\ camera_active
    /\ nruns > 0
    /\ mainpc \in {"loop", "get", "render"}

\* C1: every frame queue holds at most 5 packets, in every reachable state.
C1_ChannelBounded == \A r \in Runs : Len(frame_queue[r]) <= Capacity

C1_Witness ==
    \E r \in Runs :
        /\ Len(frame_queue[r]) = Capacity
        /\ wpc[r] = "full"
        /\ delivered[r] # <<>>
        /\ mainpc = "get"

\* C2: the step in which the worker finds its queue at capacity discards
\* the packet it holds and leaves the queue as it is.
C2_NewestDropped ==
    [][\A w \in Runs :
          (wpc[w] = "full" /\ wpc'[w] # "full"
                /\ Len(frame_queue[w]) = Capacity)
          => /\ frame_queue'[w] = frame_queue[w]
             /\ dropped'[w] = dropped[w] \cup {frame[w]}
             /\ wpc'[w] = "loop"]_vars

C2_Witness ==
    \E w \in Runs :
        /\ dropped[w] # {}
        /\ Len(frame_queue[w]) = Capacity
        /\ dropped[w] \cap (QueuedFrames(w) \cup DeliveredFrames(w)) = {}

\* C3 as claimed: after more than 5 pushes and no pop, the queue holds the
\* 5 most recently pushed packets.
C3_HoldsMostRecent ==
    \A r \in Runs :
        (delivered[r] = <<>> /\ Cardinality(PushedFrames(r)) > Capacity)
        => /\ Len(frame_queue[r]) = Capacity
           /\ Increasing(frame_queue[r])
           /\ \A q \in QueuedFrames(r), d \in dropped[r] : q > d

\* C3 as amended: after more than 5 pushes and no pop, the queue holds the
\* 5 packets pushed first, in production order, and every later packet
\* has been dropped.
C3_HoldsOldest ==
    \A r \in Runs :
        (delivered[r] = <<>> /\ Cardinality(PushedFrames(r)) > Capacity)
        => /\ Len(frame_queue[r]) = Capacity
           /\ Increasing(frame_queue[r])
           /\ \A q \in QueuedFrames(r), d \in dropped[r] : q < d

\* 8 pushes before any pop: #1 to #5 are queued, #6 to #8 dropped.
C3_Witness ==
    \E r \in Runs :
        /\ delivered[r] = <<>>
        /\ QueuedFrames(r) = 1..5
        /\ dropped[r] = 6..8

\* C4: the packets the display loop receives are in production order and
\* no packet is received twice.
C4_DeliveredInOrder == \A r \in Runs : Increasing(delivered[r])

C4_Witness ==
    \E r \in Runs :
        /\ Len(delivered[r]) >= 3
        /\ dropped[r] # {}
        /\ \E i \in 1..(Len(delivered[r]) - 1) :
              delivered[r][i + 1].frame > delivered[r][i].frame + 1

\* C5 as claimed: the packets the display loop receives are consecutive
\* packets of the produced sequence, none skipped.
C5_DeliveredContiguous ==
    \A r \in Runs : \A i \in 1..(Len(delivered[r]) - 1) :
        delivered[r][i + 1].frame = delivered[r][i].frame + 1

\* C5 as amended: the packets the display loop receives are a subsequence
\* of the produced sequence, in production order and without repetition;
\* a packet produced before a received one was received earlier or was
\* dropped on a full queue.
C5_DeliveredSubsequence ==
    \A r \in Runs : \A i \in 1..Len(delivered[r]) :
        /\ Increasing(delivered[r])
        /\ delivered[r][i].worker = r
        /\ \A n \in 1..nframes :
              n < delivered[r][i].frame =>
                 \/ n \in dropped[r]
                 \/ \E j \in 1..(i - 1) : delivered[r][j].frame = n

C5_Witness ==
    \E r \in Runs :
        /\ DeliveredFrames(r) = {1, 2, 3, 4, 5, 7}
        /\ dropped[r] = {6}

\* A script execution handles a click on the start button.
StartHandled ==
    \/ \E u \in Urls, int \in Requests :
          ScriptImproved(MaxRuns, "start", u, int)
    \/ \E u \in Urls : ScriptFixed(MaxRuns, "start", u)

\* C6: handling a start command while the address field is empty creates
\* no worker, queue or stop signal and leaves the pipeline not running.
C6_EmptyStartRejected ==
    [][(ip_url = "" /\ StartHandled)
          => /\ nruns' = nruns
             /\ wpc' = wpc
             /\ frame_queue' = frame_queue
             /\ stop_event' = stop_event
             /\ mainpc' = "idle"
             /\ camera_active' = FALSE]_vars

\* A worker is about to open an address that cannot be opened, or the
\* connection test on such an address has failed.
BadStart ==
    \/ \E r \in Runs : wpc[r] = "open" /\ ~Opens(url[r])
    \/ app = "fixed" /\ status = "conn_error"

\* C7: after a start on an address that cannot be opened, and without
\* the user interrupting the script again, the pipeline state becomes
\* idle, a connection error is shown and no worker keeps running.
C7_BadAddressEndsIdle ==
    (BadStart /\ pending = NoEvent)
       ~> \/ pending # NoEvent
          \/ /\ ~camera_active
             /\ status = "conn_error"
             /\ \A r \in Runs : wpc[r] \in {"none", "done"}

\* C8: while a start command that arrived during the display loop is being
\* handled, the running worker's stop signal stays unset, the pipeline
\* state stays Running and no new run is created.
C8_StartWhileRunningNoOp ==
    [][(pending = "start" /\ mainpc \in {"finally", "join"})
          => /\ camera_active' = camera_active
             /\ stop_event' = stop_event
             /\ nruns' = nruns]_vars

\* C9: every run before the current one has its stop signal set, and at
\* most one live worker has an unset stop signal.
C9_OneLiveWorker ==
    /\ \A r \in 1..nruns : r < nruns => stop_event[r]
    /\ Cardinality({r \in 1..nruns :
                       wpc[r] \notin {"none", "done"} /\ ~stop_event[r]}) <= 1

\* C10: once the display loop is left, the stop signal gets set and the
\* script reaches the idle state with camera_active false, whether or not
\* the worker ever takes a step.
C10_TeardownCompletes ==
    (mainpc = "finally")
       ~> (mainpc = "idle" /\ ~camera_active /\ nruns > 0 /\ stop_event[nruns])

\* The script is idle again while the worker it stopped is still alive.
C10_Witness ==
    /\ app = "improved"
    /\ mainpc = "idle"
    /\ nruns >= 1
    /\ stop_event[nruns]
    /\ ~camera_active
    /\ wpc[nruns] \notin {"none", "done"}

\* The script thread has left the display loop of run r, or a rerun request
\* has been raised in it: it has seen that the pipeline is to stop.
LoopLeft(r) ==
    \/ r < nruns
    \/ r = nruns /\ (pending # NoEvent \/ mainpc \in {"finally", "join", "idle"})

\* C11: once the script thread has seen that the pipeline is no longer to
\* run (the display loop is left, or a rerun request was raised in it), no
\* further packet of that run is delivered to the display.
C11_NoDeliveryAfterExit ==
    [][\A r \in Runs : LoopLeft(r) => delivered'[r] = delivered[r]]_vars

\* The loop was left after some deliveries, packets are still queued and
\* the worker, whose stop signal is set, holds one more to push.
C11_Witness ==
    /\ mainpc = "idle"
    /\ nruns = 1
    /\ stop_event[1]
    /\ delivered[1] # <<>>
    /\ Len(frame_queue[1]) >= 2
    /\ wpc[1] = "put"

\* Sum of the values of the finite map m over the keys in S.
RECURSIVE SumOver(_, _)
SumOver(m, S) ==
    IF S = {} THEN 0
    ELSE LET k == CHOOSE x \in S : TRUE IN m[k] + SumOver(m, S \ {k})

\* C13: the summary a detector call returns with its detection list has
\* total_objects equal to the length of the list, one class count per class
\* name in the list, equal to the number of detections of that class, and
\* class counts that add up to total_objects.
C13_SummaryCounts ==
    LET idx == 1..Len(detections)
    IN  /\ summary.total_objects = Len(detections)
        /\ DOMAIN summary.classes = {detections[i].class_name : i \in idx}
        /\ \A c \in DOMAIN summary.classes :
              summary.classes[c] =
                 Cardinality({i \in idx : detections[i].class_name = c})
        /\ SumOver(summary.classes, DOMAIN summary.classes)
              = summary.total_objects

\* Three detections, two of one class.
C13_Witness ==
    /\ conf # 0
    /\ Len(detections) = 3
    /\ summary.total_objects = 3
    /\ summary.classes = [c \in Classes |-> IF c = "person" THEN 2 ELSE 1]

\* C14: a summary carries avg_confidence exactly when its detection list
\* is not empty, and then avg_confidence times the number of detections is
\* the sum of their confidences.
C14_AverageConfidence ==
    LET idx == 1..Len(detections)
        sum == SumOver([i \in idx |-> detections[i].confidence], idx)
    IN  /\ "avg_confidence" \in DOMAIN summary <=> detections # << >>
        /\ detections # << >> =>
              /\ summary.avg_confidence.den = Len(detections)
              /\ summary.avg_confidence.num = sum

\* Confidences 0.6 and 0.8 of a person and a car: the average is 0.7.
C14_Witness ==
    /\ detections = <<Detection("person", 60), Detection("car", 80)>>
    /\ summary.total_objects = 2
    /\ summary.classes = [c \in Classes |-> 1]
    /\ summary.avg_confidence.num = 70 * summary.avg_confidence.den

\* C15: a call of detect_objects_detailed never raises to its caller, and
\* a call that met an internal error (the model does not load, inference
\* or a later step fails) returns the input frame, no detections and the
\* empty summary.
C15_FailsClosed ==
    /\ ~raised
    /\ fault # "none" =>
          /\ annotated_frame = "raw"
          /\ detections = << >>
          /\ summary = NoSummary

\* The model file does not load and the caller gets the fallback triple.
C15_Witness ==
    /\ fault = "load"
    /\ detector = "none"
    /\ conf # 0
    /\ ~raised
    /\ annotated_frame = "raw"

\* The packet the worker pushes for a frame the detector failed on.
FallbackPacket(w) ==
    [worker |-> w, frame |-> frame[w], image |-> "raw_rgb",
     detections |-> << >>, summary |-> NoSummary]

\* C12: in app_improved, when the detector meets an internal error on a
\* frame the worker goes on with the raw frame, no detections and the empty
\* summary; if the queue is not full it pushes the packet with the
\* colour-converted raw frame, the empty list and the empty summary, and
\* returns to the head of its loop.
C12_DetectorFailureTolerated ==
    [][app = "improved" =>
          /\ (wpc[1] = "detect" /\ wpc'[1] # "detect" /\ fault' # "none")
                => /\ wpc'[1] \in {"convert", "except"}
                   /\ annotated_frame' = "raw"
                   /\ detections' = << >>
                   /\ summary' = NoSummary
          /\ (wpc[1] = "full" /\ wpc'[1] # "full" /\ fault # "none"
                  /\ Len(frame_queue[1]) < Capacity)
                => wpc'[1] = "put"
          /\ (wpc[1] \in {"put", "fallback"} /\ wpc'[1] # wpc[1]
                  /\ fault # "none" /\ Len(frame_queue[1]) < Capacity)
                => /\ frame_queue'[1]
                        = Append(frame_queue[1], FallbackPacket(1))
                   /\ wpc'[1] = "loop"]_vars

\* The fallback packet of a failed detection is queued and the worker is
\* working on the next frame.
C12_Witness ==
    /\ app = "improved"
    /\ fault = "inference"
    /\ wpc[1] = "detect"
    /\ nframes = 2
    /\ frame_queue[1] # << >>
    /\ frame_queue[1][Len(frame_queue[1])]
          = [worker |-> 1, frame |-> 1, image |-> "raw_rgb",
             detections |-> << >>, summary |-> NoSummary]

\* C16: every detector call of the worker uses the confidence threshold
\* selected on the slider.
C16_UsesSelectedConfidence == conf # 0 => conf = confidence_threshold

\* C17: after a single failed read the worker is still in its streaming
\* loop, about to read again.
C17_ReadRetried == fails = 1 => wpc[1] \in {"loop", "read"}

\* C18: the worker reads only from an open frame source, releases it at
\* most once, and a worker that has ended has released the source it opened.
C18_ReleasedOnce ==
    /\ wpc[1] \in {"read", "detect", "convert", "full", "put", "except",
                    "fallback"} => cap = "open"
    /\ releases <= 1
    /\ cap = "released" => releases = 1
    /\ wpc[1] \in {"done", "crashed"} => cap # "open"

\* C19: once a run's stop signal is set, its worker ends, whether or not
\* the display loop still pops and whether or not the queue is full.
C19_WorkerTerminates ==
    \A r \in Runs : (stop_event[r] /\ wpc[r] # "none") ~> wpc[r] = "done"

\* The stop signal is set, nobody pops any more, the queue is full and the
\* worker holds one more packet.
C19_Witness ==
    /\ stop_event[1]
    /\ mainpc = "idle"
    /\ Len(frame_queue[1]) = Capacity
    /\ wpc[1] = "full"

\* C20: while its stop signal is set the worker reads at most one more
\* frame and pushes at most one more packet.
C20_StopWithinOneIteration ==
    /\ after_stop.reads <= 1
    /\ after_stop.pushes <= 1

\* The stop signal was set just before a read: the worker read that frame,
\* pushed its packet and ended.
C20_Witness ==
    /\ after_stop.reads = 1
    /\ after_stop.pushes = 1
    /\ stop_event[1]
    /\ wpc[1] = "done"

\* C21: whenever a worker is about to execute frame_queue.put the queue
\* has room, so the put does not wait.
C21_PutNeverBlocks ==
    \A w \in Runs : wpc[w] = "put" => Len(frame_queue[w]) < Capacity

\* The worker found room for the last free slot while the display loop,
\* which has popped before, is about to pop again.
C21_Witness ==
    /\ wpc[1] = "put"
    /\ Len(frame_queue[1]) = Capacity - 1
    /\ dropped[1] # {}
    /\ delivered[1] # << >>
    /\ mainpc = "get"

\* C22: a stop signal that is set stays set; a stop signal changes only in
\* the finally block of the script thread, in a step in which no worker
\* moves; and a step of a worker changes neither a stop signal nor the
\* session flags.
C22_StopSignalMonotonic ==
    [][/\ \A r \in Runs : stop_event[r] => stop_event'[r]
       /\ stop_event' # stop_event => mainpc = "finally" /\ wpc' = wpc
       /\ (wpc' # wpc /\ nruns' = nruns)
             => /\ stop_event' = stop_event
                /\ camera_active' = camera_active
                /\ stop_camera' = stop_camera]_vars

\* A second run has its own unset signal while the worker of the first
\* run, whose signal is set, is still alive.
C22_Witness ==
    /\ nruns = 2
    /\ stop_event[1]
    /\ ~stop_event[2]
    /\ wpc[1] \notin {"none", "done"}
    /\ wpc[2] \notin {"none", "open", "done"}

\* C23: a run starts with an unset stop signal and an empty queue, a worker
\* leaves its loop head only on its own run's stop signal, and every packet
\* queued for or delivered in a run was produced by that run's worker.
C23_RunsIsolated ==
    [][/\ nruns' # nruns
             => /\ ~stop_event'[nruns']
                /\ frame_queue'[nruns'] = << >>
                /\ delivered'[nruns'] = << >>
       /\ \A r \in Runs :
             /\ (wpc[r] = "loop" /\ wpc'[r] = "done") => stop_event[r]
             /\ \A i \in 1..Len(frame_queue'[r]) :
                   frame_queue'[r][i].worker = r
             /\ \A i \in 1..Len(delivered'[r]) :
                   delivered'[r][i].worker = r]_vars

\* The second run's display loop has received a packet of its own worker
\* while the stopped worker of the first run is still executing.
C23_Witness ==
    /\ nruns = 2
    /\ stop_event[1]
    /\ wpc[1] \in {"loop", "read"}
    /\ Len(delivered[2]) = 1
    /\ delivered[2][1].worker = 2
    /\ ~stop_event[2]

\* C24: when the pop times out on an empty queue and no user interaction
\* interrupts the script, the display loop shows the waiting message and
\* returns to its loop head with the session flags and every stop signal
\* as they were, and from there it polls again.
C24_TimeoutNotAnError ==
    [][/\ (mainpc = "get" /\ frame_queue[nruns] = << >> /\ mainpc' # "get"
              /\ pending' = NoEvent)
             => /\ mainpc' = "loop"
                /\ status' = "waiting"
                /\ camera_active' = camera_active
                /\ stop_camera' = stop_camera
                /\ stop_event' = stop_event
       /\ (mainpc = "loop" /\ status = "waiting" /\ mainpc' # "loop")
             => mainpc' = "get"]_vars

\* After deliveries the queue ran empty, the pop timed out and the loop is
\* polling again, still running.
C24_Witness ==
    /\ mainpc = "get"
    /\ status = "waiting"
    /\ camera_active
    /\ nruns = 1
    /\ ~stop_event[1]
    /\ delivered[1] # << >>
    /\ frame_queue[1] = << >>

\* C25: the step in which rendering raises an unexpected error takes the
\* script thread out of the display loop into its finally block without
\* touching a worker or a stop signal; leaving the finally block sets the
\* run's stop signal and clears camera_active, again without touching a
\* worker, which ends only at its own loop head or read.
C25_RenderErrorTearsDown ==
    [][/\ (mainpc = "render" /\ status' = "display_error")
             => /\ mainpc' = "finally"
                /\ wpc' = wpc
                /\ stop_event' = stop_event
       /\ (mainpc = "finally" /\ mainpc' # "finally")
             => /\ stop_event'[nruns]
                /\ ~camera_active'
                /\ wpc' = wpc
       /\ \A r \in Runs :
             (wpc'[r] = "done" /\ wpc[r] # "done")
                => wpc[r] \in {"open", "loop", "read"}]_vars

\* After a rendering error the script is idle, the stop signal is set and
\* the worker, not yet back at its loop head, is still alive.
C25_Witness ==
    /\ status = "display_error"
    /\ mainpc = "idle"
    /\ nruns = 1
    /\ stop_event[1]
    /\ ~camera_active
    /\ wpc[1] \in {"full", "put"}

\* C26: a worker whose frame source did not open is only ever at the open,
\* at its release or at its end; it has read no frame, called the detector
\* zero times, pushed and dropped no packet, and the capture never opens;
\* and no worker comes back to the open once it has left it.
C26_OpenFailureExitsDirectly ==
    [][/\ (wpc[1] # "none" /\ ~Opens(url[1]))
             => /\ wpc'[1] \in {"open", "finally", "done"}
                /\ cap' \in {"none", "unopened"}
                /\ nframes' = 0
                /\ fails' = 0
                /\ conf' = 0
                /\ detector' = "none"
                /\ fault' = "none"
                /\ frame_queue'[1] = << >>
                /\ dropped'[1] = {}
                /\ delivered'[1] = << >>
       /\ wpc[1] # "open" => wpc'[1] # "open"]_vars

\* The worker of a run whose source did not open has exited.
C26_Witness ==
    /\ ~Opens(url[1])
    /\ cap = "unopened"
    /\ wpc[1] = "done"
    /\ nframes = 0
    /\ frame_queue[1] = << >>

\* C27: the WebRTC detection-result queue never holds more results than the
\* pipeline's fixed capacity, however many frames arrive between two drains.
C27_ResultQueueBounded == Len(detection_result_queue) <= Capacity

\* C28: at most one ObjectDetector is ever constructed, and all calls of
\* get_detector that have returned, from whatever thread, returned the same
\* instance.
C28_SingleDetector ==
    /\ constructed <= 1
    /\ \A t, u \in Loaders : (got[t] # 0 /\ got[u] # 0) => got[t] = got[u]

====
